---- MODULE Spec2Model ----
(***************************************************************************)
(* IndyIssuer (aries_cloudagent/issuer/indy.py): the issuer's seven public *)
(* coroutines, run as asyncio tasks against one wallet.  A coroutine runs  *)
(* atomically from one await to the next; while it awaits a collaborator   *)
(* (the crypto engine or the tails blob storage) other tasks run.  The     *)
(* collaborators are modelled by their contract: a call is started by the  *)
(* issuer, executed by the collaborator, and its reply is delivered when   *)
(* the awaiting coroutine is resumed.                                      *)
(***************************************************************************)
EXTENDS Integers, Sequences, FiniteSets, TLC

(* ------------------------------ bounds --------------------------------- *)
\* concurrent asyncio tasks of the concurrent specification
NumTasks == 2
\* public operations started in one behaviour
MaxCalls == 3
\* largest max_cred_num a registry is created with
MaxCredNum == 2

(* ------------------------------ inputs --------------------------------- *)
Tasks == 1..NumTasks
SeqTasks == {1}

AttrNames == {"name", "age", "extra"}
\* schema["attrNames"] of the schemas issued against
Schemas == {<< >>, <<"name">>, <<"name", "age">>, <<"age", "name">>}
\* raw attribute values: one that parses as an integer, one that does not
RawValueOf == [a \in AttrNames |-> IF a = "age" THEN "412" ELSE "abc"]
\* credential_values: a mapping from some attribute names to their raw values
CredentialValues == {[a \in K |-> RawValueOf[a]] : K \in SUBSET AttrNames}

\* revocation registry ids (the engine derives one per tag); "" is None
RegIds == {"R1", "R2"}
\* the registry the single task of the sequential specification works on
SeqRegIds == {"R1"}
NoReg == ""
CredDefIds == {"did:3:CL:15:default", "did:3:CL:15:t1", "malformed"}
IssuanceTypes == {"ISSUANCE_BY_DEFAULT", "ISSUANCE_ON_DEMAND"}
DEFAULT_ISSUANCE_TYPE == "ISSUANCE_BY_DEFAULT"
DEFAULT_CRED_DEF_TAG == "default"
DEFAULT_SIGNATURE_TYPE == "CL"

(* indy.error.ErrorCode values the collaborators answer with *)
Success == "Success"
RegistryFull == "AnoncredsRevocationRegistryFullError"
NotFoundCodes == {"CommonInvalidStructure", "WalletItemNotFound"}
\* failures any call can meet whatever the arguments are
AnyTimeCodes == {"CommonIOError"}
VARIABLES
    pc,                \* task -> where the task's coroutine stands
    op,                \* task -> the public operation it runs ("" when idle)
    schema,            \* task -> schema["attrNames"] argument
    credential_values, \* task -> credential_values argument
    revoc_reg_id,      \* task -> revoc_reg_id argument (NoReg when None)
    cred_revoc_id,     \* task -> cred_revoc_id argument (0 when unused)
    cred_def_id,       \* task -> credential_definition_id argument
    max_cred_num,      \* task -> max_cred_num argument (0 when unused)
    issuance_type,     \* task -> issuance_type argument ("" when None)
    encoded_values,    \* task -> local encoded_values handed to the engine
    tails_writer,      \* task -> local tails_writer handle (0 before open)
    snap,              \* task -> registry state the engine read for the call
    reply,             \* task -> the collaborator's answer to the call
    outcome,           \* task -> what the caller of the operation observes
    ready,             \* event loop: the tasks whose awaited call was answered,
                       \* in the order of the answers; they resume in that order
    registry,          \* engine: registry id -> revocation registry state
    cred_defs,         \* engine: credential definition ids in the wallet
    writers,           \* blob storage: tails writer handles that are open
    handles,           \* blob storage: handles given out so far
    invoked,           \* task -> engine primitives invoked by the current call
    started,           \* task -> length of log when the current call began
    log,               \* the successful issuances against a registry and the
                       \* successful revocations, in the order they completed
    ncalls             \* operations started

vars == <<pc, op, schema, credential_values, revoc_reg_id, cred_revoc_id,
          cred_def_id, max_cred_num, issuance_type, encoded_values,
          tails_writer, snap, reply, outcome, ready, registry, cred_defs,
          writers, handles, invoked, started, log, ncalls>>

argvars == <<schema, credential_values, revoc_reg_id, cred_revoc_id, cred_def_id,
            max_cred_num, issuance_type>>
enginevars == <<registry, cred_defs, writers, handles>>

(* --------------------------- record shapes ----------------------------- *)
NoRegistry == [exists |-> FALSE, max |-> 0, issuance_type |-> "",
               issued |-> 0, revoked |-> {}]
NoDelta == [reg |-> NoReg, prior |-> {}, new |-> {}]
NoReply == [code |-> "", id |-> "", cred_rev_id |-> 0, delta |-> NoDelta,
            signed |-> {}, handle |-> 0]
NoOutcome == [kind |-> "none", error |-> "", cause |-> "", attribute |-> "",
              bool |-> FALSE, id |-> "", cred_rev_id |-> 0, delta |-> NoDelta,
              signed |-> {}]
NoValues == [a \in {} |-> ""]

Failure(code) == [NoReply EXCEPT !.code = code]
Raise(error, cause) == [NoOutcome EXCEPT !.kind = "raise", !.error = error,
                                         !.cause = cause]
Return == [NoOutcome EXCEPT !.kind = "return"]

(* ---------------------------- pure helpers ----------------------------- *)
Range(f) == {f[i] : i \in DOMAIN f}

\* str(credential_value): the values of the model are strings already
Str(v) == v

\* messaging.util.encode: a decimal integer within 32 bits encodes as itself,
\* anything else as the SHA-256 digest of its text read as a big-endian integer
encode(v) ==
    CASE v = "412" -> "412"
      [] v = "abc" -> "84342368487090800366523834928142263660104883695016514377462985829716817089965"

\* IndyErrorHandler.wrap_error(error, message, error_cls): error_cls carrying
\* the engine's failure as its cause
wrap_error(code, error_cls) == Raise(error_cls, code)

\* with IndyErrorHandler(message, IssuerError): an IndyError raised in the
\* body leaves it as IssuerError, anything else passes
IndyErrorHandler(r, result) ==
    IF r.code # Success THEN wrap_error(r.code, "IssuerError") ELSE result

\* the loop of create_credential over schema["attrNames"]: the first name
\* without a value stops it, otherwise enc gains one entry per name
RECURSIVE EncodeLoop(_, _, _, _)
EncodeLoop(attrs, vals, i, enc) ==
    IF i > Len(attrs) THEN [missing |-> "", enc |-> enc]
    ELSE IF attrs[i] \notin DOMAIN vals THEN [missing |-> attrs[i], enc |-> enc]
    ELSE EncodeLoop(attrs, vals, i + 1,
            [a \in DOMAIN enc \cup {attrs[i]} |->
                IF a = attrs[i]
                THEN [raw |-> Str(vals[a]), encoded |-> encode(vals[a])]
                ELSE enc[a]])

\* a plausible slip: a missing value is skipped instead of raising
EncodeValuesSkipMissing(attrs, vals) ==
    EncodeLoop(SelectSeq(attrs, LAMBDA a : a \in DOMAIN vals), vals, 1, NoValues)

\* a plausible slip: every supplied value is encoded, also those the schema lacks
EncodeValuesAllSupplied(attrs, vals) ==
    LET r == EncodeLoop(attrs, vals, 1, NoValues)
    IN  IF r.missing # "" THEN r
        ELSE [r EXCEPT !.enc = [a \in DOMAIN vals |->
                 [raw |-> Str(vals[a]), encoded |-> encode(vals[a])]]]

EncodeValues(attrs, vals) == EncodeLoop(attrs, vals, 1, NoValues)

\* a plausible slip: the registry-full failure is wrapped like every other failure
CreateCredentialResultNoFull(r) ==
    IF r.code # Success THEN wrap_error(r.code, "IssuerError")
    ELSE [Return EXCEPT !.signed = r.signed, !.cred_rev_id = r.cred_rev_id]

\* what create_credential makes of the engine's answer
CreateCredentialResult(r) ==
    IF r.code = RegistryFull
    THEN Raise("IssuerRevocationRegistryFullError", "")
    ELSE IF r.code # Success THEN wrap_error(r.code, "IssuerError")
    ELSE [Return EXCEPT !.signed = r.signed, !.cred_rev_id = r.cred_rev_id]

\* a plausible slip: every failure of the probe reads as "not in the wallet"
InWalletResultAnyFailureFalse(r) ==
    [Return EXCEPT !.bool = (r.code = Success)]

\* what credential_definition_in_wallet makes of the probe's answer
InWalletResult(r) ==
    IF r.code = Success THEN [Return EXCEPT !.bool = TRUE]
    ELSE IF r.code \notin NotFoundCodes THEN wrap_error(r.code, "IssuerError")
    ELSE [Return EXCEPT !.bool = FALSE]

(* --------------------------- engine helpers ---------------------------- *)
\* the accumulator of a registry: the indices it currently holds as valid
Accum(r) ==
    IF r.issuance_type = "ISSUANCE_ON_DEMAND"
    THEN (1..r.issued) \ r.revoked
    ELSE (1..r.max) \ r.revoked

Delta(rr, before, after) ==
    [reg |-> rr, prior |-> Accum(before), new |-> Accum(after)]

\* a mutating call on a registry: issuance against it, or a revocation
Mutates(t, rr) ==
    /\ rr # NoReg
    /\ revoc_reg_id[t] = rr
    /\ op[t] \in {"create_credential", "revoke_credential"}

\* the task stands between the start of its engine call and its completion
InEngineCall(t) == pc[t] \in {"await_engine", "engine_running", "engine_done"}

Idle(t) == pc[t] \in {"idle", "done"}

(* ------------------------- entering an operation ----------------------- *)
\* a task that runs nothing (or whose last call has ended) enters operation o
\* with its arguments; the locals of the call start empty
Enter(t, o, sch, vals, rr, cri, cd, mcn, it) ==
    /\ Idle(t)
    /\ ncalls < MaxCalls
    /\ ncalls' = ncalls + 1
    /\ started' = [started EXCEPT ![t] = Len(log)]
    /\ op' = [op EXCEPT ![t] = o]
    /\ schema' = [schema EXCEPT ![t] = sch]
    /\ credential_values' = [credential_values EXCEPT ![t] = vals]
    /\ revoc_reg_id' = [revoc_reg_id EXCEPT ![t] = rr]
    /\ cred_revoc_id' = [cred_revoc_id EXCEPT ![t] = cri]
    /\ cred_def_id' = [cred_def_id EXCEPT ![t] = cd]
    /\ max_cred_num' = [max_cred_num EXCEPT ![t] = mcn]
    /\ issuance_type' = [issuance_type EXCEPT ![t] = it]
    /\ tails_writer' = [tails_writer EXCEPT ![t] = 0]
    /\ snap' = [snap EXCEPT ![t] = NoRegistry]
    /\ reply' = [reply EXCEPT ![t] = NoReply]

\* the engine primitive of the call is started and the coroutine awaits it
StartEngine(t) ==
    /\ pc' = [pc EXCEPT ![t] = "await_engine"]
    /\ invoked' = [invoked EXCEPT ![t] = @ + 1]

\* the engine has answered: the awaiting coroutine is scheduled to resume
Answer(t, r) ==
    /\ pc' = [pc EXCEPT ![t] = "engine_done"]
    /\ reply' = [reply EXCEPT ![t] = r]
    /\ ready' = Append(ready, t)

\* the event loop resumes the coroutine that was scheduled first
Resume(t) ==
    /\ ready # << >>
    /\ Head(ready) = t
    /\ ready' = Tail(ready)

\* the operation ends: the caller observes o
End(t, o) ==
    /\ pc' = [pc EXCEPT ![t] = "done"]
    /\ outcome' = [outcome EXCEPT ![t] = o]

\* the record of a call of task t that ended with outcome o and delta d
LogEntry(t, o, d) ==
    [task |-> t, op |-> op[t], reg |-> revoc_reg_id[t], started |-> started[t],
     cred_rev_id |-> o.cred_rev_id, delta |-> d]

(* --------------------------- create_credential ------------------------- *)
\* lines 188-217: the values are checked and encoded, then the engine's
\* issuance primitive is started; a missing value raises before any call
CreateCredentialCall(t, sch, vals, rr) ==
    LET r == EncodeValues(sch, vals) IN
    /\ Enter(t, "create_credential", sch, vals, rr, 0, "", 0, "")
    /\ encoded_values' = [encoded_values EXCEPT ![t] = r.enc]
    /\ IF r.missing # ""
       THEN /\ End(t, [Raise("IssuerError", "") EXCEPT !.attribute = r.missing])
            /\ invoked' = [invoked EXCEPT ![t] = 0]
       ELSE /\ pc' = [pc EXCEPT ![t] = "await_engine"]
            /\ invoked' = [invoked EXCEPT ![t] = 1]
            /\ outcome' = [outcome EXCEPT ![t] = NoOutcome]
    /\ UNCHANGED <<enginevars, ready, log>>

\* indy.anoncreds.issuer_create_credential, first half: the engine reads the
\* registry the credential is issued against
EngineIssueBegin(t) ==
    /\ pc[t] = "await_engine"
    /\ op[t] = "create_credential"
    /\ pc' = [pc EXCEPT ![t] = "engine_running"]
    /\ snap' = [snap EXCEPT ![t] = IF revoc_reg_id[t] \in RegIds
                                   THEN registry[revoc_reg_id[t]]
                                   ELSE NoRegistry]
    /\ UNCHANGED <<op, argvars, encoded_values, tails_writer, reply, outcome, ready,
                   enginevars, invoked, started, log, ncalls>>

\* the engine's verdict on an issuance computed from registry state s
IssueCode(rr, s) ==
    IF rr = NoReg THEN Success
    ELSE IF ~s.exists THEN "WalletItemNotFound"
    ELSE IF s.issued >= s.max THEN RegistryFull
    ELSE Success

\* second half: the engine signs the encoded values, takes the next index of
\* the registry it read and stores the registry, or fails and stores nothing
EngineIssueEnd(t) ==
    /\ pc[t] = "engine_running"
    /\ op[t] = "create_credential"
    /\ \E code \in AnyTimeCodes \cup {IssueCode(revoc_reg_id[t], snap[t])} :
        LET rr == revoc_reg_id[t]
            new == [snap[t] EXCEPT !.issued = @ + 1]
        IN  IF code # Success
            THEN /\ Answer(t, Failure(code))
                 /\ UNCHANGED registry
            ELSE IF rr = NoReg
            THEN /\ Answer(t, [NoReply EXCEPT !.code = Success,
                                   !.signed = DOMAIN encoded_values[t]])
                 /\ UNCHANGED registry
            ELSE /\ Answer(t, [NoReply EXCEPT !.code = Success,
                                   !.signed = DOMAIN encoded_values[t],
                                   !.cred_rev_id = new.issued,
                                   !.delta = Delta(rr, snap[t], new)])
                 /\ registry' = [registry EXCEPT ![rr] = new]
    /\ UNCHANGED <<op, argvars, encoded_values, tails_writer, snap, outcome,
                   cred_defs, writers, handles, invoked, started, log, ncalls>>

\* lines 218-226: the awaiting coroutine is resumed with the engine's answer
CreateCredentialReturn(t) ==
    /\ pc[t] = "engine_done"
    /\ Resume(t)
    /\ op[t] = "create_credential"
    /\ LET o == CreateCredentialResult(reply[t]) IN
        /\ End(t, o)
        /\ log' = IF revoc_reg_id[t] # NoReg /\ o.kind = "return"
                  THEN Append(log, LogEntry(t, o, reply[t].delta))
                  ELSE log
    /\ UNCHANGED <<op, argvars, encoded_values, tails_writer, snap, reply,
                   enginevars, invoked, started, ncalls>>

(* --------------------------- revoke_credential ------------------------- *)
\* lines 240-243: the engine's revocation primitive is started
RevokeCredentialCall(t, rr, cri) ==
    /\ Enter(t, "revoke_credential", << >>, NoValues, rr, cri, "", 0, "")
    /\ encoded_values' = [encoded_values EXCEPT ![t] = NoValues]
    /\ pc' = [pc EXCEPT ![t] = "await_engine"]
    /\ invoked' = [invoked EXCEPT ![t] = 1]
    /\ outcome' = [outcome EXCEPT ![t] = NoOutcome]
    /\ UNCHANGED <<enginevars, ready, log>>

\* indy.anoncreds.issuer_revoke_credential, first half: the engine reads the
\* registry
EngineRevokeBegin(t) ==
    /\ pc[t] = "await_engine"
    /\ op[t] = "revoke_credential"
    /\ pc' = [pc EXCEPT ![t] = "engine_running"]
    /\ snap' = [snap EXCEPT ![t] = registry[revoc_reg_id[t]]]
    /\ UNCHANGED <<op, argvars, encoded_values, tails_writer, reply, outcome, ready,
                   enginevars, invoked, started, log, ncalls>>

\* the engine's verdict on revoking index cri computed from registry state s
RevokeCode(s, cri) ==
    IF ~s.exists THEN "WalletItemNotFound"
    ELSE IF cri \notin Accum(s) THEN "AnoncredsInvalidUserRevocId"
    ELSE Success

\* second half: the engine takes the index out of the accumulator it read and
\* stores the registry, or fails and stores nothing
EngineRevokeEnd(t) ==
    /\ pc[t] = "engine_running"
    /\ op[t] = "revoke_credential"
    /\ \E code \in AnyTimeCodes \cup {RevokeCode(snap[t], cred_revoc_id[t])} :
        LET rr == revoc_reg_id[t]
            new == [snap[t] EXCEPT !.revoked = @ \cup {cred_revoc_id[t]}]
        IN  IF code # Success
            THEN /\ Answer(t, Failure(code))
                 /\ UNCHANGED registry
            ELSE /\ Answer(t, [NoReply EXCEPT !.code = Success,
                                   !.delta = Delta(rr, snap[t], new)])
                 /\ registry' = [registry EXCEPT ![rr] = new]
    /\ UNCHANGED <<op, argvars, encoded_values, tails_writer, snap, outcome,
                   cred_defs, writers, handles, invoked, started, log, ncalls>>

\* lines 240-248: the awaiting coroutine is resumed inside IndyErrorHandler
RevokeCredentialReturn(t) ==
    /\ pc[t] = "engine_done"
    /\ Resume(t)
    /\ op[t] = "revoke_credential"
    /\ LET o == IndyErrorHandler(reply[t], [Return EXCEPT !.delta = reply[t].delta]) IN
        /\ End(t, o)
        /\ log' = IF o.kind = "return" THEN Append(log, LogEntry(t, o, o.delta))
                  ELSE log
    /\ UNCHANGED <<op, argvars, encoded_values, tails_writer, snap, reply,
                   enginevars, invoked, started, ncalls>>

(* ------------------------ create_and_store_schema ---------------------- *)
\* lines 38-42: the id of a schema
make_schema_id(origin_did, schema_name, schema_version) ==
    origin_did \o ":2:" \o schema_name \o ":" \o schema_version

\* lines 65-68: the engine's schema primitive is started
CreateSchemaCall(t, attrs) ==
    /\ Enter(t, "create_and_store_schema", attrs, NoValues, NoReg, 0, "", 0, "")
    /\ encoded_values' = [encoded_values EXCEPT ![t] = NoValues]
    /\ StartEngine(t)
    /\ outcome' = [outcome EXCEPT ![t] = NoOutcome]
    /\ UNCHANGED <<enginevars, ready, log>>

\* indy.anoncreds.issuer_create_schema: a schema needs attribute names
EngineCreateSchema(t) ==
    /\ pc[t] = "await_engine"
    /\ op[t] = "create_and_store_schema"
    /\ \E code \in AnyTimeCodes \cup
                   {IF schema[t] = << >> THEN "CommonInvalidStructure" ELSE Success} :
        Answer(t, IF code = Success
                  THEN [NoReply EXCEPT !.code = Success, !.id = make_schema_id("did", "name", "1.0")]
                  ELSE Failure(code))
    /\ UNCHANGED <<op, argvars, encoded_values, tails_writer, snap, outcome,
                   enginevars, invoked, started, log, ncalls>>

\* lines 65-69: resumed inside IndyErrorHandler
CreateSchemaReturn(t) ==
    /\ pc[t] = "engine_done"
    /\ Resume(t)
    /\ op[t] = "create_and_store_schema"
    /\ End(t, IndyErrorHandler(reply[t], [Return EXCEPT !.id = reply[t].id]))
    /\ UNCHANGED <<op, argvars, encoded_values, tails_writer, snap, reply,
                   enginevars, invoked, started, log, ncalls>>

(* ------------------ create_and_store_credential_definition ------------- *)
OrDefault(v, d) == IF v = "" THEN d ELSE v

\* lines 71-77: the id of a credential definition; seqNo is str(schema["seqNo"])
make_credential_definition_id(origin_did, seqNo, signature_type, tag) ==
    origin_did \o ":3:" \o OrDefault(signature_type, DEFAULT_SIGNATURE_TYPE)
               \o ":" \o seqNo \o ":" \o OrDefault(tag, DEFAULT_CRED_DEF_TAG)

\* lines 129-140: the engine's primitive is started with the defaults filled
\* in; cred_def_id is the id the engine forms for these arguments
CreateCredDefCall(t, sig, tag) ==
    /\ Enter(t, "create_and_store_credential_definition", << >>, NoValues, NoReg, 0,
             make_credential_definition_id("did", "15", sig, tag), 0, "")
    /\ encoded_values' = [encoded_values EXCEPT ![t] = NoValues]
    /\ StartEngine(t)
    /\ outcome' = [outcome EXCEPT ![t] = NoOutcome]
    /\ UNCHANGED <<enginevars, ready, log>>

\* indy.anoncreds.issuer_create_and_store_credential_def: the definition is
\* stored in the wallet unless it is there already
EngineCreateCredDef(t) ==
    /\ pc[t] = "await_engine"
    /\ op[t] = "create_and_store_credential_definition"
    /\ \E code \in AnyTimeCodes \cup
                   {IF cred_def_id[t] \in cred_defs
                    THEN "AnoncredsCredDefAlreadyExistsError" ELSE Success} :
        IF code = Success
        THEN /\ Answer(t, [NoReply EXCEPT !.code = Success, !.id = cred_def_id[t]])
             /\ cred_defs' = cred_defs \cup {cred_def_id[t]}
        ELSE /\ Answer(t, Failure(code))
             /\ UNCHANGED cred_defs
    /\ UNCHANGED <<op, argvars, encoded_values, tails_writer, snap, outcome,
                   registry, writers, handles, invoked, started, log, ncalls>>

\* lines 129-141: resumed inside IndyErrorHandler
CreateCredDefReturn(t) ==
    /\ pc[t] = "engine_done"
    /\ Resume(t)
    /\ op[t] = "create_and_store_credential_definition"
    /\ End(t, IndyErrorHandler(reply[t], [Return EXCEPT !.id = reply[t].id]))
    /\ UNCHANGED <<op, argvars, encoded_values, tails_writer, snap, reply,
                   enginevars, invoked, started, log, ncalls>>

(* ------------- credential_definition_in_wallet, create_credential_offer - *)
\* lines 88-91: the probe, an offer for the id, is started
InWalletCall(t, cd) ==
    /\ Enter(t, "credential_definition_in_wallet", << >>, NoValues, NoReg, 0, cd, 0, "")
    /\ encoded_values' = [encoded_values EXCEPT ![t] = NoValues]
    /\ StartEngine(t)
    /\ outcome' = [outcome EXCEPT ![t] = NoOutcome]
    /\ UNCHANGED <<enginevars, ready, log>>

\* lines 154-157: the offer is started
CreateOfferCall(t, cd) ==
    /\ Enter(t, "create_credential_offer", << >>, NoValues, NoReg, 0, cd, 0, "")
    /\ encoded_values' = [encoded_values EXCEPT ![t] = NoValues]
    /\ StartEngine(t)
    /\ outcome' = [outcome EXCEPT ![t] = NoOutcome]
    /\ UNCHANGED <<enginevars, ready, log>>

\* the engine's verdict on an offer for id cd
OfferCode(cd) ==
    IF cd = "malformed" THEN "CommonInvalidStructure"
    ELSE IF cd \notin cred_defs THEN "WalletItemNotFound"
    ELSE Success

\* indy.anoncreds.issuer_create_credential_offer
EngineCreateOffer(t) ==
    /\ pc[t] = "await_engine"
    /\ op[t] \in {"credential_definition_in_wallet", "create_credential_offer"}
    /\ \E code \in AnyTimeCodes \cup {OfferCode(cred_def_id[t])} :
        Answer(t, IF code = Success
                  THEN [NoReply EXCEPT !.code = Success, !.id = cred_def_id[t]]
                  ELSE Failure(code))
    /\ UNCHANGED <<op, argvars, encoded_values, tails_writer, snap, outcome,
                   enginevars, invoked, started, log, ncalls>>

\* lines 92-104: the probe's answer is classified
InWalletReturn(t) ==
    /\ pc[t] = "engine_done"
    /\ Resume(t)
    /\ op[t] = "credential_definition_in_wallet"
    /\ End(t, InWalletResult(reply[t]))
    /\ UNCHANGED <<op, argvars, encoded_values, tails_writer, snap, reply,
                   enginevars, invoked, started, log, ncalls>>

\* lines 154-161: resumed inside IndyErrorHandler
CreateOfferReturn(t) ==
    /\ pc[t] = "engine_done"
    /\ Resume(t)
    /\ op[t] = "create_credential_offer"
    /\ End(t, IndyErrorHandler(reply[t], [Return EXCEPT !.id = reply[t].id]))
    /\ UNCHANGED <<op, argvars, encoded_values, tails_writer, snap, reply,
                   enginevars, invoked, started, log, ncalls>>

(* ------------------ create_and_store_revocation_registry --------------- *)
\* lines 277-282: the tails writer is being opened; no engine call yet
CreateRevRegCall(t, tag, mcn, it) ==
    /\ Enter(t, "create_and_store_revocation_registry", << >>, NoValues, tag, 0, "",
             mcn, it)
    /\ encoded_values' = [encoded_values EXCEPT ![t] = NoValues]
    /\ pc' = [pc EXCEPT ![t] = "await_open"]
    /\ invoked' = [invoked EXCEPT ![t] = 0]
    /\ outcome' = [outcome EXCEPT ![t] = NoOutcome]
    /\ UNCHANGED <<enginevars, ready, log>>

\* indy.blob_storage.open_writer: a fresh open handle, or a failure
BlobOpenWriter(t) ==
    /\ pc[t] = "await_open"
    /\ pc' = [pc EXCEPT ![t] = "open_done"]
    /\ ready' = Append(ready, t)
    /\ \/ /\ handles' = handles + 1
          /\ writers' = writers \cup {handles + 1}
          /\ reply' = [reply EXCEPT ![t] =
                         [NoReply EXCEPT !.code = Success, !.handle = handles + 1]]
       \/ /\ \E code \in AnyTimeCodes : reply' = [reply EXCEPT ![t] = Failure(code)]
          /\ UNCHANGED <<handles, writers>>
    /\ UNCHANGED <<op, argvars, encoded_values, tails_writer, snap, outcome,
                   registry, cred_defs, invoked, started, log, ncalls>>

\* a plausible slip: the engine's primitive is started whatever open_writer answered
CreateRevRegOpenedAnyway(t) ==
    /\ pc[t] = "open_done"
    /\ Resume(t)
    /\ tails_writer' = [tails_writer EXCEPT ![t] = reply[t].handle]
    /\ StartEngine(t)
    /\ UNCHANGED <<op, argvars, encoded_values, snap, reply, outcome,
                   enginevars, started, log, ncalls>>

\* lines 280-304: resumed with the writer; a failed open leaves the coroutine
\* as the IndyError it is (the await is outside IndyErrorHandler), otherwise
\* the engine's registry primitive is started with the writer
CreateRevRegOpened(t) ==
    /\ pc[t] = "open_done"
    /\ Resume(t)
    /\ IF reply[t].code # Success
       THEN /\ End(t, Raise("IndyError", reply[t].code))
            /\ UNCHANGED <<tails_writer, invoked>>
       ELSE /\ tails_writer' = [tails_writer EXCEPT ![t] = reply[t].handle]
            /\ StartEngine(t)
            /\ UNCHANGED outcome
    /\ UNCHANGED <<op, argvars, encoded_values, snap, reply, enginevars, started, log, ncalls>>

\* indy.anoncreds.issuer_create_and_store_revoc_reg: the registry is stored
\* with an empty index space unless its id is taken; what the engine does
\* with the writer it was handed is its own business: it may close it or not
EngineCreateRevocReg(t) ==
    /\ pc[t] = "await_engine"
    /\ op[t] = "create_and_store_revocation_registry"
    /\ \E code \in AnyTimeCodes \cup
                   {IF registry[revoc_reg_id[t]].exists
                    THEN "AnoncredsRevocationRegistryAlreadyExists" ELSE Success} :
        IF code = Success
        THEN /\ Answer(t, [NoReply EXCEPT !.code = Success, !.id = revoc_reg_id[t]])
             /\ registry' = [registry EXCEPT ![revoc_reg_id[t]] =
                    [exists |-> TRUE, max |-> max_cred_num[t],
                     issuance_type |-> OrDefault(issuance_type[t], DEFAULT_ISSUANCE_TYPE),
                     issued |-> 0, revoked |-> {}]]
        ELSE /\ Answer(t, Failure(code))
             /\ UNCHANGED registry
    /\ \E closes \in BOOLEAN :
        writers' = IF closes THEN writers \ {tails_writer[t]} ELSE writers
    /\ UNCHANGED <<op, argvars, encoded_values, tails_writer, snap, outcome,
                   cred_defs, handles, invoked, started, log, ncalls>>

\* lines 284-305: resumed inside IndyErrorHandler
CreateRevRegReturn(t) ==
    /\ pc[t] = "engine_done"
    /\ Resume(t)
    /\ op[t] = "create_and_store_revocation_registry"
    /\ End(t, IndyErrorHandler(reply[t], [Return EXCEPT !.id = reply[t].id]))
    /\ UNCHANGED <<op, argvars, encoded_values, tails_writer, snap, reply,
                   enginevars, invoked, started, log, ncalls>>

(* ------------------- concurrent issuance and revocation ---------------- *)
\* no task runs anything
InitTasks ==
    /\ pc = [t \in Tasks |-> "idle"]
    /\ op = [t \in Tasks |-> ""]
    /\ schema = [t \in Tasks |-> << >>]
    /\ credential_values = [t \in Tasks |-> NoValues]
    /\ revoc_reg_id = [t \in Tasks |-> NoReg]
    /\ cred_revoc_id = [t \in Tasks |-> 0]
    /\ cred_def_id = [t \in Tasks |-> ""]
    /\ max_cred_num = [t \in Tasks |-> 0]
    /\ issuance_type = [t \in Tasks |-> ""]
    /\ encoded_values = [t \in Tasks |-> NoValues]
    /\ tails_writer = [t \in Tasks |-> 0]
    /\ snap = [t \in Tasks |-> NoRegistry]
    /\ reply = [t \in Tasks |-> NoReply]
    /\ outcome = [t \in Tasks |-> NoOutcome]
    /\ invoked = [t \in Tasks |-> 0]
    /\ started = [t \in Tasks |-> 0]
    /\ log = << >>
    /\ ncalls = 0
    /\ ready = << >>

\* the wallet holds the registries already, nothing issued or revoked yet
InitConc ==
    /\ InitTasks
    /\ \E it \in IssuanceTypes :
        registry = [r \in RegIds |->
                      [exists |-> TRUE, max |-> MaxCredNum,
                       issuance_type |-> IF r = "R1" THEN it
                                         ELSE DEFAULT_ISSUANCE_TYPE,
                       issued |-> 0, revoked |-> {}]]
    /\ cred_defs = {}
    /\ writers = {}
    /\ handles = 0

NextConc ==
    \E t \in Tasks :
        \/ \E rr \in RegIds \cup {NoReg} :
              CreateCredentialCall(t, <<"name">>, [a \in {"name"} |-> "412"], rr)
        \/ EngineIssueBegin(t)
        \/ EngineIssueEnd(t)
        \/ CreateCredentialReturn(t)
        \/ \E rr \in RegIds, cri \in 1..MaxCredNum : RevokeCredentialCall(t, rr, cri)
        \/ EngineRevokeBegin(t)
        \/ EngineRevokeEnd(t)
        \/ RevokeCredentialReturn(t)

SpecConc == InitConc /\ [][NextConc]_vars

(* ------------------------- one task, every operation ------------------- *)
\* a fresh wallet: no credential definition, no registry, no open writer
Init ==
    /\ InitTasks
    /\ registry = [r \in RegIds |-> NoRegistry]
    /\ cred_defs = {}
    /\ writers = {}
    /\ handles = 0

\* one task issuing, revoking and creating registries
Next ==
    \E t \in SeqTasks :
        \/ \E sch \in Schemas, vals \in CredentialValues, rr \in SeqRegIds \cup {NoReg} :
              CreateCredentialCall(t, sch, vals, rr)
        \/ EngineIssueBegin(t)
        \/ EngineIssueEnd(t)
        \/ CreateCredentialReturn(t)
        \/ \E rr \in SeqRegIds, cri \in 1..MaxCredNum : RevokeCredentialCall(t, rr, cri)
        \/ EngineRevokeBegin(t)
        \/ EngineRevokeEnd(t)
        \/ RevokeCredentialReturn(t)
        \/ \E tag \in SeqRegIds, mcn \in 1..MaxCredNum, it \in IssuanceTypes \cup {""} :
              CreateRevRegCall(t, tag, mcn, it)
        \/ BlobOpenWriter(t)
        \/ CreateRevRegOpened(t)
        \/ EngineCreateRevocReg(t)
        \/ CreateRevRegReturn(t)

Spec == Init /\ [][Next]_vars

\* one task working on schemas, credential definitions and offers
NextWallet ==
    \E t \in SeqTasks :
        \/ \E attrs \in Schemas : CreateSchemaCall(t, attrs)
        \/ EngineCreateSchema(t)
        \/ CreateSchemaReturn(t)
        \/ \E sig \in {"", "CL"}, tag \in {"", "t1"} : CreateCredDefCall(t, sig, tag)
        \/ EngineCreateCredDef(t)
        \/ CreateCredDefReturn(t)
        \/ \E cd \in CredDefIds : InWalletCall(t, cd)
        \/ \E cd \in CredDefIds : CreateOfferCall(t, cd)
        \/ EngineCreateOffer(t)
        \/ InWalletReturn(t)
        \/ CreateOfferReturn(t)

SpecWallet == Init /\ [][NextWallet]_vars

(* ------------------------------- claims -------------------------------- *)
CallsOf(o) == {t \in Tasks : op[t] = o /\ pc[t] # "idle"}

MissingAttributes(t) == Range(schema[t]) \ DOMAIN credential_values[t]

\* C1: for every registry R, no two create_credential / revoke_credential
\* calls with revoc_reg_id = R are at the same time between the start of
\* their engine call and its completion.
C1_OneMutationPerRegistry ==
    \A rr \in RegIds : \A t1, t2 \in Tasks :
        (t1 # t2 /\ Mutates(t1, rr) /\ Mutates(t2, rr))
            => ~(InEngineCall(t1) /\ InEngineCall(t2))

\* entries i < j of the log are calls that overlapped: j began before i ended
Overlapped(i, j) == i < j /\ log[j].started < i

\* C2: of two concurrent successful revocations on one registry, with no other
\* mutation of the registry completing between them, the delta of the one that
\* completes second starts from the accumulator the first one's delta ends in.
C2_ConcurrentRevocationsChain ==
    \A i, j \in DOMAIN log :
        ( /\ Overlapped(i, j)
          /\ log[i].op = "revoke_credential"
          /\ log[j].op = "revoke_credential"
          /\ log[i].reg = log[j].reg
          /\ \A k \in DOMAIN log : (i < k /\ k < j) => log[k].reg # log[i].reg )
            => log[j].delta.prior = log[i].delta.new

\* C3: a create_credential call whose values lack a schema attribute ends with
\* IssuerError naming a missing attribute, and never invokes the engine.
C3_MissingAttributeFailsBeforeEngine ==
    \A t \in CallsOf("create_credential") :
        MissingAttributes(t) # {} =>
            /\ pc[t] = "done"
            /\ outcome[t].kind = "raise"
            /\ outcome[t].error = "IssuerError"
            /\ outcome[t].attribute \in MissingAttributes(t)
            /\ invoked[t] = 0
            /\ reply[t] = NoReply

C3_Witness ==
    \E t \in CallsOf("create_credential") :
        /\ pc[t] = "done"
        /\ schema[t] = <<"name", "age">>
        /\ DOMAIN credential_values[t] = {"name", "extra"}
        /\ outcome[t].attribute = "age"

\* C4: in create_credential the engine's "registry full" failure reaches the
\* caller as IssuerRevocationRegistryFullError and only that failure does,
\* every other engine failure as IssuerError, and a successful engine call
\* returns the credential and its revocation id.
C4_IssuanceOutcomes ==
    \A t \in CallsOf("create_credential") :
        (pc[t] = "done" /\ reply[t].code # "") =>
            /\ (reply[t].code = RegistryFull
                  <=> outcome[t].error = "IssuerRevocationRegistryFullError")
            /\ (reply[t].code \notin {Success, RegistryFull}
                  <=> outcome[t].error = "IssuerError")
            /\ (reply[t].code = Success <=> outcome[t].kind = "return")
            /\ (reply[t].code = Success =>
                  /\ outcome[t].signed = reply[t].signed
                  /\ outcome[t].cred_rev_id = reply[t].cred_rev_id)

C4_Witness ==
    \E t \in CallsOf("create_credential") :
        /\ pc[t] = "done"
        /\ reply[t].code = RegistryFull
        /\ registry[revoc_reg_id[t]].issued = registry[revoc_reg_id[t]].max
        /\ outcome[t].error = "IssuerRevocationRegistryFullError"

\* C5: credential_definition_in_wallet returns true iff the probe succeeds,
\* false iff it fails with "item not found" or "invalid structure", and raises
\* IssuerError for every other failure.
C5_ProbeClassification ==
    \A t \in CallsOf("credential_definition_in_wallet") :
        pc[t] = "done" =>
            /\ (outcome[t].kind = "return" /\ outcome[t].bool)
                  <=> reply[t].code = Success
            /\ (outcome[t].kind = "return" /\ ~outcome[t].bool)
                  <=> reply[t].code \in NotFoundCodes
            /\ (outcome[t].kind = "raise" /\ outcome[t].error = "IssuerError")
                  <=> reply[t].code \notin NotFoundCodes \cup {Success}
            /\ outcome[t].kind \in {"return", "raise"}

C5_Witness ==
    \E t \in CallsOf("credential_definition_in_wallet") :
        /\ pc[t] = "done"
        /\ reply[t].code \in AnyTimeCodes
        /\ cred_def_id[t] \in cred_defs
        /\ outcome[t].error = "IssuerError"

\* C6: a create_credential call whose values hold every schema attribute
\* reaches the engine, and the encoded values handed to it have exactly the
\* schema's attribute names as keys, each with the value supplied for it.
C6_EncodedValuesAreSchemaAttributes ==
    \A t \in CallsOf("create_credential") :
        MissingAttributes(t) = {} =>
            /\ invoked[t] = 1
            /\ outcome[t].attribute = ""
            /\ DOMAIN encoded_values[t] = Range(schema[t])
            /\ \A a \in DOMAIN encoded_values[t] :
                  /\ encoded_values[t][a].raw = credential_values[t][a]
                  /\ encoded_values[t][a].encoded = encode(credential_values[t][a])
            /\ (reply[t].code = Success => reply[t].signed = Range(schema[t]))

C6_Witness ==
    \E t \in CallsOf("create_credential") :
        /\ pc[t] = "done"
        /\ schema[t] = <<"age", "name">>
        /\ DOMAIN credential_values[t] = {"name", "age", "extra"}
        /\ outcome[t].kind = "return"
        /\ outcome[t].signed = {"name", "age"}

\* C7: in create_and_store_revocation_registry the engine is invoked only with
\* a tails writer that was opened for the call; a failed open ends the call
\* without any engine call; and a registry comes to exist only in a step in
\* which the engine's creation primitive succeeds for a call holding a writer.
C7_RegistryExistsOnlyAfterEngineSuccess ==
    [][ /\ \A t \in Tasks :
            (op'[t] = "create_and_store_revocation_registry" /\ pc'[t] # "idle") =>
               /\ (invoked'[t] > 0 \/ InEngineCall(t)')
                     => (tails_writer'[t] \in 1..handles' /\ invoked'[t] = 1)
               /\ (pc'[t] = "done" /\ tails_writer'[t] = 0)
                     => (invoked'[t] = 0 /\ outcome'[t].kind = "raise")
               /\ (pc'[t] = "done" /\ outcome'[t].kind = "raise")
                     => reply'[t].id = ""
        /\ \A r \in RegIds :
            (~registry[r].exists /\ registry'[r].exists) =>
               \E t \in Tasks :
                  /\ op[t] = "create_and_store_revocation_registry"
                  /\ revoc_reg_id[t] = r
                  /\ pc[t] = "await_engine"
                  /\ tails_writer[t] \in 1..handles
                  /\ reply'[t].code = Success
                  /\ reply'[t].id = r ]_vars

C7_Witness ==
    \E t \in CallsOf("create_and_store_revocation_registry") :
        /\ pc[t] = "done"
        /\ tails_writer[t] = 0
        /\ outcome[t].kind = "raise"
        /\ invoked[t] = 0
        /\ ~registry[revoc_reg_id[t]].exists

\* C8: whatever collaborator call fails, a public operation ends for its
\* caller with a result, with IssuerError or with
\* IssuerRevocationRegistryFullError; a raw engine error never escapes.
C8_NoRawEngineError ==
    \A t \in Tasks :
        pc[t] = "done" =>
            \/ outcome[t].kind = "return"
            \/ /\ outcome[t].kind = "raise"
               /\ outcome[t].error \in {"IssuerError", "IssuerRevocationRegistryFullError"}

\* C9: the credentialRevocationId values returned by successful
\* create_credential calls against one registry are pairwise distinct (which
\* their being strictly increasing in issuance order requires).
C9_RevocationIdsNeverReused ==
    \A i, j \in DOMAIN log :
        ( /\ i < j
          /\ log[i].op = "create_credential"
          /\ log[j].op = "create_credential"
          /\ log[i].reg = log[j].reg )
            => log[i].cred_rev_id # log[j].cred_rev_id

\* C10: once a create_and_store_revocation_registry call has ended, with a
\* result or with an error, the tails writer it opened is no longer open.
C10_TailsWriterReleased ==
    \A t \in CallsOf("create_and_store_revocation_registry") :
        pc[t] = "done" => tails_writer[t] \notin writers

====
